---- MODULE Spec2Model ----
(***************************************************************************)
(* Model of src/main.js: the WebGL ocean-shader background (capability     *)
(* probe, shader setup, resize handler, render loop) and the GSAP          *)
(* animation wiring done on DOMContentLoaded.                              *)
(*                                                                         *)
(* The script body runs synchronously, one statement group per step (pc);  *)
(* host events (resize, frame callback, DOMContentLoaded, mouse events)    *)
(* are dispatched only once the script has run to its end (pc = "idle").   *)
(***************************************************************************)
EXTENDS Integers, Sequences, FiniteSets, TLC

VARIABLES
    pc,                 \* position in the top-level script
    now,                \* Date.now(), in milliseconds
    innerWidth,         \* window.innerWidth
    innerHeight,        \* window.innerHeight
    resizeQueued,       \* a resize event waits to be dispatched
    gl,                 \* "unset" | "null" | "context"
    vertexShader,       \* "unset" | "null" | "shader"
    fragmentShader,     \* "unset" | "null" | "shader"
    program,            \* "unset" | "unlinked" | "linked"
    quadUploaded,       \* the quad was uploaded and bound to a_position
    timeLocation,       \* "unset" | "null" | "location"
    resolutionLocation, \* "unset" | "null" | "location"
    canvasWidth,        \* canvas.width
    canvasHeight,       \* canvas.height
    canvasDisplay,      \* canvas.style.display
    fallbackActive,     \* fallback.classList contains 'active'
    viewport,           \* GL viewport <<x, y, w, h>>, <<>> without a context
    u_time,             \* uniform u_time, <<seconds, millis>>, <<>> before link
    u_resolution,       \* uniform u_resolution, <<w, h>>, <<>> before link
    startTime,          \* const startTime, -1 before line 163
    resizeListener,     \* window 'resize' listener registered
    framePending,       \* number of requestAnimationFrame callbacks pending
    renderer,           \* "Uninitialized" | "Running" | "Fallback"
    drawIssued,         \* some drawArrays call has been issued
    setupLog,           \* setup steps executed so far, in order
    failedStep,         \* index in setupLog of the first failing step, 0 if none
    caller,             \* function whose body issued the latest calls
    ops,                \* GL / host calls issued by the latest step
    gsapDefined,        \* typeof gsap !== 'undefined'
    domListener,        \* DOMContentLoaded listener registered
    domLoaded,          \* DOMContentLoaded has been dispatched
    gsapCalls,          \* number of calls made into gsap
    btnListeners,       \* hover listeners registered on .btn elements
    cardListeners,      \* hover listeners registered on .feature-card elements
    anchorListeners,    \* click listeners registered on a[href^="#"] elements
    exception           \* an exception propagated out of a handler

glVars == <<gl, vertexShader, fragmentShader, program, quadUploaded,
            timeLocation, resolutionLocation>>
canvasVars == <<canvasWidth, canvasHeight, canvasDisplay, fallbackActive>>
uniformVars == <<viewport, u_time, u_resolution>>
loopVars == <<startTime, resizeListener, framePending, renderer, drawIssued>>
windowVars == <<innerWidth, innerHeight, resizeQueued>>
gsapVars == <<gsapDefined, domListener, domLoaded, gsapCalls, btnListeners,
              cardListeners, anchorListeners, exception>>
vars == <<pc, now, windowVars, glVars, canvasVars, uniformVars, loopVars,
          setupLog, failedStep, caller, ops, gsapVars>>

----------------------------------------------------------------------------
(* Bounds of the model *)

MaxNow == 2500
MaxElems == 1
MaxGsapCalls == 13

ClockSteps == {1000, 1500}
WindowSizes == {<<1, 1>>, <<800, 600>>}
HrefKinds == {"bare", "found", "missing"}

(* Program constants *)

DefaultCanvasWidth == 300
DefaultCanvasHeight == 150
QuadFirst == 0
QuadCount == 4

----------------------------------------------------------------------------
(* Helpers *)

Call(name, target, args) == [op |-> name, target |-> target, args |-> args]

OpNames(s) == {s[i].op : i \in 1..Len(s)}

CountOp(s, name) == Cardinality({i \in 1..Len(s) : s[i].op = name})

\* Mutant: the factor 0.001 is left out
Seconds_Millis(ms) == <<ms, 0>>

\* (Date.now() - startTime) * 0.001 : milliseconds to seconds, kept as
\* <<whole seconds, remaining thousandths>>
Seconds(ms) == <<ms \div 1000, ms % 1000>>

\* gl.uniform*(location, ...) is a no-op on a null location
UniformWrite(location, current, value) ==
    IF location = "location" THEN value ELSE current

\* Mutant: the fallback is shown but the canvas is not hidden
UseFallback_KeepsCanvas ==
    /\ fallbackActive' = TRUE
    /\ UNCHANGED canvasDisplay
    /\ renderer' = "Fallback"
    /\ pc' = "registerDom"

\* fallback.classList.add('active'); canvas.style.display = 'none'; return;
UseFallback ==
    /\ fallbackActive' = TRUE
    /\ canvasDisplay' = "none"
    /\ renderer' = "Fallback"
    /\ pc' = "registerDom"

----------------------------------------------------------------------------
Init ==
    /\ pc = "probe"
    /\ now = 0
    /\ \E size \in WindowSizes :
          /\ innerWidth = size[1]
          /\ innerHeight = size[2]
    /\ resizeQueued = FALSE
    /\ gl = "unset"
    /\ vertexShader = "unset"
    /\ fragmentShader = "unset"
    /\ program = "unset"
    /\ quadUploaded = FALSE
    /\ timeLocation = "unset"
    /\ resolutionLocation = "unset"
    /\ canvasWidth = DefaultCanvasWidth
    /\ canvasHeight = DefaultCanvasHeight
    /\ canvasDisplay = ""
    /\ fallbackActive = FALSE
    /\ viewport = <<>>
    /\ u_time = <<>>
    /\ u_resolution = <<>>
    /\ startTime = -1
    /\ resizeListener = FALSE
    /\ framePending = 0
    /\ renderer = "Uninitialized"
    /\ drawIssued = FALSE
    /\ setupLog = <<>>
    /\ failedStep = 0
    /\ caller = "none"
    /\ ops = <<>>
    /\ gsapDefined \in BOOLEAN
    /\ domListener = FALSE
    /\ domLoaded = FALSE
    /\ gsapCalls = 0
    /\ btnListeners = 0
    /\ cardListeners = 0
    /\ anchorListeners = 0
    /\ exception = FALSE

----------------------------------------------------------------------------
(* Environment *)

\* Date.now() moves forward
ClockAdvance ==
    /\ \E d \in ClockSteps :
          /\ now + d <= MaxNow
          /\ now' = now + d
    /\ UNCHANGED <<pc, windowVars, glVars, canvasVars, uniformVars, loopVars,
                   setupLog, failedStep, caller, ops, gsapVars>>

\* the user resizes the window; the host queues a resize event
WindowChange ==
    /\ \E size \in WindowSizes :
          /\ size # <<innerWidth, innerHeight>>
          /\ innerWidth' = size[1]
          /\ innerHeight' = size[2]
    /\ resizeQueued' = TRUE
    /\ UNCHANGED <<pc, now, glVars, canvasVars, uniformVars, loopVars,
                   setupLog, failedStep, caller, ops, gsapVars>>

----------------------------------------------------------------------------
(* Functions of the script *)

LastArgs(s, name, default) ==
    LET idx == {i \in 1..Len(s) : s[i].op = name}
    IN  IF idx = {} THEN default
        ELSE s[CHOOSE i \in idx : \A j \in idx : j <= i].args

\* function compileShader(source, type): the calls it makes and its result
CompileShaderOps(type, ok) ==
    <<Call("createShader", type, <<>>),
      Call("shaderSource", type, <<>>),
      Call("compileShader", type, <<>>),
      Call("getShaderParameter", "COMPILE_STATUS", <<>>)>>
    \o (IF ok THEN <<>>
        ELSE <<Call("getShaderInfoLog", type, <<>>),
               Call("console.error", "Shader compilation error:", <<>>),
               Call("deleteShader", type, <<>>)>>)

CompileShaderResult(ok) == IF ok THEN "shader" ELSE "null"

\* Mutant: only the vertex stage is tested
CompileFailed_VertexOnly(vs, fs) == vs = "null"

\* Mutant: && in place of ||
CompileFailed_Both(vs, fs) == vs = "null" /\ fs = "null"

\* if (!vertexShader || !fragmentShader)
CompileFailed(vs, fs) == vs = "null" \/ fs = "null"

\* Mutant: the resolution uniform is not uploaded again
ResizeOps_NoUniform(w, h) ==
    <<Call("viewport", "", <<0, 0, w, h>>)>>

\* Mutant: the viewport is not resized
ResizeOps_NoViewport(w, h) ==
    <<Call("uniform2f", "u_resolution", <<w, h>>)>>

\* Mutant: resize also starts a render loop of its own
ResizeOps_Redraw(w, h) ==
    <<Call("viewport", "", <<0, 0, w, h>>),
      Call("uniform2f", "u_resolution", <<w, h>>),
      Call("requestAnimationFrame", "render", <<>>)>>

\* function resize(): the GL calls made for a canvas of w x h
ResizeOps(w, h) ==
    <<Call("viewport", "", <<0, 0, w, h>>),
      Call("uniform2f", "u_resolution", <<w, h>>)>>

\* Mutant: the tick uploads the resolution as well
RenderOps_WithResolution(t) ==
    <<Call("uniform1f", "u_time", Seconds(t - startTime)),
      Call("uniform2f", "u_resolution", <<canvasWidth, canvasHeight>>),
      Call("drawArrays", "TRIANGLE_STRIP", <<QuadFirst, QuadCount>>),
      Call("requestAnimationFrame", "render", <<>>)>>

\* Mutant: the tick does not schedule the next one
RenderOps_NoSchedule(t) ==
    <<Call("uniform1f", "u_time", Seconds(t - startTime)),
      Call("drawArrays", "TRIANGLE_STRIP", <<QuadFirst, QuadCount>>)>>

\* function render(): the calls of one tick, at Date.now() = t
RenderOps(t) ==
    <<Call("uniform1f", "u_time", Seconds(t - startTime)),
      Call("drawArrays", "TRIANGLE_STRIP", <<QuadFirst, QuadCount>>),
      Call("requestAnimationFrame", "render", <<>>)>>

\* the state change of the calls in s (s is also recorded in ops)
Apply(s, pendingBefore) ==
    /\ viewport' = LastArgs(s, "viewport", viewport)
    /\ u_resolution' = UniformWrite(resolutionLocation, u_resolution,
                                    LastArgs(s, "uniform2f", u_resolution))
    /\ u_time' = UniformWrite(timeLocation, u_time,
                              LastArgs(s, "uniform1f", u_time))
    /\ drawIssued' = (drawIssued \/ "drawArrays" \in OpNames(s))
    /\ framePending' = pendingBefore + CountOp(s, "requestAnimationFrame")
    /\ ops' = s

\* resize(), lines 152-157
Resize ==
    /\ canvasWidth' = innerWidth
    /\ canvasHeight' = innerHeight
    /\ Apply(ResizeOps(canvasWidth', canvasHeight'), framePending)
    /\ caller' = "resize"

\* render(), lines 164-169; pendingBefore: callbacks pending when it starts
Render(pendingBefore) ==
    /\ Apply(RenderOps(now), pendingBefore)
    /\ caller' = "render"

----------------------------------------------------------------------------
(* The top-level script, lines 2-171 and 174 *)

\* lines 3-14
StepProbe ==
    /\ pc = "probe"
    /\ \E ctx \in {"context", "null"} :
          /\ gl' = ctx
          /\ setupLog' = Append(setupLog, "getContext")
          /\ IF ctx = "null"
             THEN /\ failedStep' = Len(setupLog) + 1
                  /\ UseFallback
                  /\ ops' = <<Call("getContext", "webgl", <<>>),
                              Call("getContext", "experimental-webgl", <<>>),
                              Call("console.warn", "WebGL not supported", <<>>)>>
                  /\ UNCHANGED viewport
             ELSE /\ pc' = "compileVertex"
                  /\ viewport' = <<0, 0, canvasWidth, canvasHeight>>
                  /\ ops' = <<Call("getContext", "webgl", <<>>)>>
                  /\ UNCHANGED <<failedStep, fallbackActive, canvasDisplay,
                                 renderer>>
    /\ caller' = "setup"
    /\ UNCHANGED <<now, windowVars, vertexShader, fragmentShader, program,
                   quadUploaded, timeLocation, resolutionLocation,
                   canvasWidth, canvasHeight, u_time, u_resolution,
                   startTime, resizeListener, framePending, drawIssued,
                   gsapVars>>

\* line 107
StepCompileVertex ==
    /\ pc = "compileVertex"
    /\ \E ok \in BOOLEAN :
          /\ vertexShader' = CompileShaderResult(ok)
          /\ ops' = CompileShaderOps("VERTEX_SHADER", ok)
          /\ failedStep' = IF ok THEN failedStep ELSE Len(setupLog) + 1
    /\ setupLog' = Append(setupLog, "compileVertex")
    /\ pc' = "compileFragment"
    /\ caller' = "compileShader"
    /\ UNCHANGED <<now, windowVars, gl, fragmentShader, program, quadUploaded,
                   timeLocation, resolutionLocation, canvasVars, uniformVars,
                   loopVars, gsapVars>>

\* line 108
StepCompileFragment ==
    /\ pc = "compileFragment"
    /\ \E ok \in BOOLEAN :
          /\ fragmentShader' = CompileShaderResult(ok)
          /\ ops' = CompileShaderOps("FRAGMENT_SHADER", ok)
          /\ failedStep' = IF ok \/ failedStep # 0 THEN failedStep
                           ELSE Len(setupLog) + 1
    /\ setupLog' = Append(setupLog, "compileFragment")
    /\ pc' = "compileGate"
    /\ caller' = "compileShader"
    /\ UNCHANGED <<now, windowVars, gl, vertexShader, program, quadUploaded,
                   timeLocation, resolutionLocation, canvasVars, uniformVars,
                   loopVars, gsapVars>>

\* lines 110-115
StepCompileGate ==
    /\ pc = "compileGate"
    /\ IF CompileFailed(vertexShader, fragmentShader)
       THEN /\ UseFallback
            /\ ops' = <<Call("console.warn", "Shader compilation failed", <<>>)>>
       ELSE /\ pc' = "link"
            /\ ops' = <<>>
            /\ UNCHANGED <<fallbackActive, canvasDisplay, renderer>>
    /\ caller' = "setup"
    /\ UNCHANGED <<now, windowVars, glVars, canvasWidth, canvasHeight,
                   uniformVars, startTime, resizeListener, framePending,
                   drawIssued, setupLog, failedStep, gsapVars>>

\* lines 117-127
StepLink ==
    /\ pc = "link"
    /\ setupLog' = Append(setupLog, "linkProgram")
    /\ \E ok \in BOOLEAN :
          IF ok
          THEN /\ program' = "linked"
               /\ u_time' = Seconds(0)
               /\ u_resolution' = <<0, 0>>
               /\ pc' = "quad"
               /\ ops' = <<Call("createProgram", "", <<>>),
                           Call("attachShader", "VERTEX_SHADER", <<>>),
                           Call("attachShader", "FRAGMENT_SHADER", <<>>),
                           Call("linkProgram", "", <<>>),
                           Call("getProgramParameter", "LINK_STATUS", <<>>)>>
               /\ UNCHANGED <<failedStep, fallbackActive, canvasDisplay,
                              renderer>>
          ELSE /\ program' = "unlinked"
               /\ failedStep' = Len(setupLog) + 1
               /\ UseFallback
               /\ ops' = <<Call("createProgram", "", <<>>),
                           Call("attachShader", "VERTEX_SHADER", <<>>),
                           Call("attachShader", "FRAGMENT_SHADER", <<>>),
                           Call("linkProgram", "", <<>>),
                           Call("getProgramParameter", "LINK_STATUS", <<>>),
                           Call("getProgramInfoLog", "", <<>>),
                           Call("console.error", "Program linking error:", <<>>)>>
               /\ UNCHANGED <<u_time, u_resolution>>
    /\ caller' = "setup"
    /\ UNCHANGED <<now, windowVars, gl, vertexShader, fragmentShader,
                   quadUploaded, timeLocation, resolutionLocation,
                   canvasWidth, canvasHeight, viewport, startTime,
                   resizeListener, framePending, drawIssued, gsapVars>>

\* lines 129-145
StepQuad ==
    /\ pc = "quad"
    /\ quadUploaded' = TRUE
    /\ setupLog' = Append(setupLog, "bufferData")
    /\ ops' = <<Call("useProgram", "", <<>>),
                Call("createBuffer", "", <<>>),
                Call("bindBuffer", "ARRAY_BUFFER", <<>>),
                Call("bufferData", "ARRAY_BUFFER", <<-1, -1, 1, -1, -1, 1, 1, 1>>),
                Call("getAttribLocation", "a_position", <<>>),
                Call("enableVertexAttribArray", "a_position", <<>>),
                Call("vertexAttribPointer", "a_position", <<2, 0, 0>>)>>
    /\ pc' = "uniformLocations"
    /\ caller' = "setup"
    /\ UNCHANGED <<now, windowVars, gl, vertexShader, fragmentShader, program,
                   timeLocation, resolutionLocation, canvasVars, uniformVars,
                   loopVars, failedStep, gsapVars>>

\* lines 148-149
StepUniformLocations ==
    /\ pc = "uniformLocations"
    /\ timeLocation' = "location"
    /\ resolutionLocation' = "location"
    /\ setupLog' = Append(setupLog, "getUniformLocation")
    /\ ops' = <<Call("getUniformLocation", "u_time", <<>>),
                Call("getUniformLocation", "u_resolution", <<>>)>>
    /\ pc' = "initialResize"
    /\ caller' = "setup"
    /\ UNCHANGED <<now, windowVars, gl, vertexShader, fragmentShader, program,
                   quadUploaded, canvasVars, uniformVars, loopVars,
                   failedStep, gsapVars>>

\* line 159
StepInitialResize ==
    /\ pc = "initialResize"
    /\ Resize
    /\ setupLog' = Append(setupLog, "resize")
    /\ pc' = "addResizeListener"
    /\ UNCHANGED <<now, windowVars, glVars, canvasDisplay, fallbackActive,
                   startTime, resizeListener, renderer, failedStep, gsapVars>>

\* line 160
StepAddResizeListener ==
    /\ pc = "addResizeListener"
    /\ resizeListener' = TRUE
    /\ setupLog' = Append(setupLog, "addResizeListener")
    /\ ops' = <<Call("addEventListener", "resize", <<>>)>>
    /\ pc' = "startClock"
    /\ caller' = "setup"
    /\ UNCHANGED <<now, windowVars, glVars, canvasVars, uniformVars,
                   startTime, framePending, renderer, drawIssued,
                   failedStep, gsapVars>>

\* line 163
StepStartClock ==
    /\ pc = "startClock"
    /\ startTime' = now
    /\ setupLog' = Append(setupLog, "startClock")
    /\ ops' = <<>>
    /\ pc' = "firstRender"
    /\ caller' = "setup"
    /\ UNCHANGED <<now, windowVars, glVars, canvasVars, uniformVars,
                   resizeListener, framePending, renderer, drawIssued,
                   failedStep, gsapVars>>

\* line 170
StepFirstRender ==
    /\ pc = "firstRender"
    /\ Render(framePending)
    /\ renderer' = "Running"
    /\ setupLog' = Append(setupLog, "render")
    /\ pc' = "registerDom"
    /\ UNCHANGED <<now, windowVars, glVars, canvasVars, startTime,
                   resizeListener, failedStep, gsapVars>>

\* line 174
StepRegisterDom ==
    /\ pc = "registerDom"
    /\ domListener' = TRUE
    /\ ops' = <<Call("addEventListener", "DOMContentLoaded", <<>>)>>
    /\ pc' = "idle"
    /\ caller' = "script"
    /\ UNCHANGED <<now, windowVars, glVars, canvasVars, uniformVars, loopVars,
                   setupLog, failedStep, gsapDefined, domLoaded, gsapCalls,
                   btnListeners, cardListeners, anchorListeners, exception>>

Script ==
    \/ StepProbe
    \/ StepCompileVertex
    \/ StepCompileFragment
    \/ StepCompileGate
    \/ StepLink
    \/ StepQuad
    \/ StepUniformLocations
    \/ StepInitialResize
    \/ StepAddResizeListener
    \/ StepStartClock
    \/ StepFirstRender
    \/ StepRegisterDom

----------------------------------------------------------------------------
(* Host events, dispatched once the script has run to its end *)

\* the queued resize event is dispatched to the listener of line 160
ResizeEvent ==
    /\ pc = "idle"
    /\ resizeQueued
    /\ resizeQueued' = FALSE
    /\ IF resizeListener
       THEN Resize
       ELSE UNCHANGED <<canvasWidth, canvasHeight, uniformVars, drawIssued,
                        framePending, ops, caller>>
    /\ UNCHANGED <<pc, now, innerWidth, innerHeight, glVars, canvasDisplay,
                   fallbackActive, startTime, resizeListener, renderer,
                   setupLog, failedStep, gsapVars>>

\* the host runs a pending frame callback: render(), lines 164-169
RenderTick ==
    /\ pc = "idle"
    /\ framePending > 0
    /\ Render(framePending - 1)
    /\ UNCHANGED <<pc, now, windowVars, glVars, canvasVars, startTime,
                   resizeListener, renderer, setupLog, failedStep, gsapVars>>

\* Mutant: the check for gsap is missing
GsapMissing_Never(defined) == FALSE

\* if (typeof gsap === 'undefined'), line 176
GsapMissing(defined) == ~defined

HeaderHeroCalls == 6
SectionCalls == 2

\* gsap calls made by the wiring of lines 182-287
WiringCalls(cards, stats) ==
    HeaderHeroCalls + (1 + cards) + SectionCalls + (1 + stats)

\* the DOMContentLoaded handler, lines 174-356
DOMContentLoaded ==
    /\ pc = "idle"
    /\ domListener
    /\ ~domLoaded
    /\ domLoaded' = TRUE
    /\ caller' = "DOMContentLoaded"
    /\ IF GsapMissing(gsapDefined)
       THEN /\ ops' = <<Call("console.warn", "GSAP not loaded", <<>>)>>
            /\ UNCHANGED <<gsapCalls, btnListeners, cardListeners,
                           anchorListeners, exception>>
       ELSE IF ~gsapDefined
       THEN \* gsap.from on an undeclared gsap: ReferenceError at line 182
            /\ exception' = TRUE
            /\ ops' = <<>>
            /\ UNCHANGED <<gsapCalls, btnListeners, cardListeners,
                           anchorListeners>>
       ELSE \E cards \in 0..MaxElems, stats \in 0..MaxElems,
               btns \in 0..MaxElems, anchors \in 0..MaxElems :
            /\ gsapCalls' = gsapCalls + WiringCalls(cards, stats)
            /\ btnListeners' = 2 * btns
            /\ cardListeners' = 2 * cards
            /\ anchorListeners' = anchors
            /\ ops' = <<Call("gsap", "wiring", <<WiringCalls(cards, stats)>>),
                        Call("addEventListener", "mouse",
                             <<2 * btns, 2 * cards, anchors>>)>>
            /\ UNCHANGED exception
    /\ UNCHANGED <<pc, now, windowVars, glVars, canvasVars, uniformVars,
                   loopVars, setupLog, failedStep, gsapDefined, domListener>>

\* mouseenter / mouseleave on a .btn, lines 291-305
BtnHover ==
    /\ pc = "idle"
    /\ btnListeners > 0
    /\ gsapCalls + 1 <= MaxGsapCalls
    /\ gsapCalls' = gsapCalls + 1
    /\ caller' = "btnHover"
    /\ ops' = <<Call("gsap.to", "btn", <<>>)>>
    /\ UNCHANGED <<pc, now, windowVars, glVars, canvasVars, uniformVars,
                   loopVars, setupLog, failedStep, gsapDefined, domListener,
                   domLoaded, btnListeners, cardListeners, anchorListeners,
                   exception>>

\* mouseenter / mouseleave on a .feature-card, lines 312-336
CardHover ==
    /\ pc = "idle"
    /\ cardListeners > 0
    /\ gsapCalls + 2 <= MaxGsapCalls
    /\ gsapCalls' = gsapCalls + 2
    /\ caller' = "cardHover"
    /\ ops' = <<Call("gsap.to", "card", <<>>), Call("gsap.to", "number", <<>>)>>
    /\ UNCHANGED <<pc, now, windowVars, glVars, canvasVars, uniformVars,
                   loopVars, setupLog, failedStep, gsapDefined, domListener,
                   domLoaded, btnListeners, cardListeners, anchorListeners,
                   exception>>

\* click on an a[href^="#"], lines 341-354; href is "#" alone ("bare"),
\* names an element of the page ("found") or none ("missing")
AnchorClick ==
    /\ pc = "idle"
    /\ anchorListeners > 0
    /\ caller' = "anchorClick"
    /\ \E href \in HrefKinds :
          \/ /\ href = "bare"       \* querySelector('#') throws SyntaxError
             /\ exception' = TRUE
             /\ ops' = <<Call("preventDefault", "", <<>>)>>
             /\ UNCHANGED gsapCalls
          \/ /\ href = "found"
             /\ gsapCalls + 1 <= MaxGsapCalls
             /\ gsapCalls' = gsapCalls + 1
             /\ ops' = <<Call("preventDefault", "", <<>>),
                         Call("gsap.to", "window", <<>>)>>
             /\ UNCHANGED exception
          \/ /\ href = "missing"
             /\ ops' = <<Call("preventDefault", "", <<>>)>>
             /\ UNCHANGED <<gsapCalls, exception>>
    /\ UNCHANGED <<pc, now, windowVars, glVars, canvasVars, uniformVars,
                   loopVars, setupLog, failedStep, gsapDefined, domListener,
                   domLoaded, btnListeners, cardListeners, anchorListeners>>

----------------------------------------------------------------------------
Next ==
    \/ ClockAdvance
    \/ WindowChange
    \/ Script
    \/ ResizeEvent
    \/ RenderTick
    \/ DOMContentLoaded
    \/ BtnHover
    \/ CardHover
    \/ AnchorClick

Spec == Init /\ [][Next]_vars

\* the script runs to its end, and the host runs every scheduled frame callback
LiveSpec == Init /\ [][Next]_vars /\ WF_vars(Script) /\ WF_vars(RenderTick)

----------------------------------------------------------------------------
(* Properties *)

Range(s) == {s[i] : i \in 1..Len(s)}

Occurrences(s, x) == Cardinality({i \in 1..Len(s) : s[i] = x})

ScriptEnded == pc \in {"registerDom", "idle"}

\* C1: after any of the three setup failures (no context, a shader stage
\* failing to compile, link failure) the fallback element is active and the
\* canvas hidden, and from then on no draw call has been issued, no frame
\* callback is pending and no setup step has run a second time.
C1_FailureEndsInFallback ==
    (failedStep # 0 /\ ScriptEnded) =>
        /\ fallbackActive
        /\ canvasDisplay = "none"
        /\ ~drawIssued
        /\ framePending = 0
        /\ ~resizeListener
        /\ \A x \in Range(setupLog) : Occurrences(setupLog, x) = 1

C1_Witness ==
    /\ pc = "idle"
    /\ program = "unlinked"
    /\ fallbackActive
    /\ canvasDisplay = "none"
    /\ domLoaded
    /\ ~resizeQueued
    /\ innerWidth = 800
    /\ now > 0

\* C2: when the vertex stage or the fragment stage fails to compile, no
\* program is ever created or linked in that run, and the script ends with
\* the fallback active and the canvas hidden.
C2_NoLinkAfterCompileFailure ==
    (vertexShader = "null" \/ fragmentShader = "null") =>
        /\ program = "unset"
        /\ "linkProgram" \notin Range(setupLog)
        /\ ScriptEnded => (fallbackActive /\ canvasDisplay = "none")

C2_Witness ==
    /\ pc = "idle"
    /\ vertexShader = "shader"
    /\ fragmentShader = "null"
    /\ fallbackActive

\* C3 as stated: once a setup step has failed, no later setup step is
\* executed in that run (the failing step is the last one of the log).
C3_Original ==
    failedStep # 0 => Len(setupLog) = failedStep

\* C3 amended: once a setup step has failed, the only setup step that may
\* still run is the fragment-stage compilation after a failed vertex-stage
\* compilation; no program creation or link, buffer upload, uniform lookup,
\* resize-listener registration or render follows.
C3_Amended ==
    failedStep # 0 =>
        LET rest == SubSeq(setupLog, failedStep + 1, Len(setupLog))
        IN  /\ \/ rest = <<>>
               \/ /\ rest = <<"compileFragment">>
                  /\ setupLog[failedStep] = "compileVertex"
            /\ program # "linked"
            /\ ~quadUploaded
            /\ timeLocation = "unset"
            /\ resolutionLocation = "unset"
            /\ ~resizeListener
            /\ ~drawIssued

C3_Witness ==
    /\ pc = "idle"
    /\ failedStep = 2
    /\ setupLog = <<"getContext", "compileVertex", "compileFragment">>
    /\ vertexShader = "null"

ResizeRuns == StepInitialResize \/ (ResizeEvent /\ resizeListener)

\* C4: right after the resize handler has run (the initial call of setup
\* included), canvas width and height equal window.innerWidth and
\* window.innerHeight, the GL viewport is (0, 0, width, height) and the
\* resolution uniform holds the same width and height.
C4_ResizeSyncsSurface ==
    [][ResizeRuns =>
          /\ canvasWidth' = innerWidth'
          /\ canvasHeight' = innerHeight'
          /\ viewport' = <<0, 0, innerWidth', innerHeight'>>
          /\ u_resolution' = <<innerWidth', innerHeight'>>]_vars

C4_Witness ==
    /\ pc = "idle"
    /\ caller = "resize"
    /\ drawIssued
    /\ innerWidth = 800 /\ innerHeight = 600
    /\ canvasWidth = 800 /\ canvasHeight = 600
    /\ viewport = <<0, 0, 800, 600>>
    /\ u_resolution = <<800, 600>>

UniformOps == {"uniform1f", "uniform2f"}

\* C5 as stated: every write to one of the two uniforms is made by the
\* render tick.
C5_Original ==
    \A i \in 1..Len(ops) : ops[i].op \in UniformOps => caller = "render"

\* C5 amended: the time uniform is written only by the render tick and the
\* resolution uniform only by the resize handler (its initial call during
\* setup and every resize event); no other handler or setup step writes
\* either of them.
C5_Amended ==
    [][/\ (u_time # <<>> /\ u_time' # u_time) => caller' = "render"
       /\ (u_resolution # <<>> /\ u_resolution' # u_resolution)
              => caller' = "resize"
       /\ \A i \in 1..Len(ops') :
             /\ ops'[i].op = "uniform1f"
                   => (caller' = "render" /\ ops'[i].target = "u_time")
             /\ ops'[i].op = "uniform2f"
                   => (caller' = "resize" /\ ops'[i].target = "u_resolution")
      ]_vars

C5_Witness ==
    /\ pc = "idle"
    /\ caller = "resize"
    /\ "uniform2f" \in OpNames(ops)
    /\ u_resolution = <<1, 1>>
    /\ u_time = <<1, 500>>

RenderRuns == StepFirstRender \/ RenderTick

\* C6: every render tick makes, in this order, exactly one upload of
\* (now - startTime) / 1000 seconds to the time uniform, one draw call with
\* triangle-strip topology, first vertex 0 and vertex count 4, and one
\* scheduling of the next tick, while the resolution uniform holds the
\* dimensions of the latest resize (800x600 at 2.5 s: resolution (800,600),
\* time 2.5, one draw).
C6_RenderTick ==
    [][RenderRuns =>
          LET elapsed == now - startTime
              time == <<elapsed \div 1000, elapsed % 1000>>
          IN  /\ ops' = <<Call("uniform1f", "u_time", time),
                          Call("drawArrays", "TRIANGLE_STRIP", <<0, 4>>),
                          Call("requestAnimationFrame", "render", <<>>)>>
              /\ u_time' = time
              /\ u_resolution' = <<canvasWidth, canvasHeight>>
              /\ u_resolution' = u_resolution
              /\ (canvasWidth = 800 /\ canvasHeight = 600 /\ elapsed = 2500)
                    => /\ u_resolution' = <<800, 600>>
                       /\ u_time' = <<2, 500>>
                       /\ CountOp(ops', "drawArrays") = 1
       ]_vars

C6_Witness ==
    /\ pc = "idle"
    /\ caller = "render"
    /\ startTime = 0
    /\ now = 2500
    /\ u_time = <<2, 500>>
    /\ u_resolution = <<800, 600>>
    /\ CountOp(ops, "drawArrays") = 1

\* C7: when gsap is undefined, no call into the animation engine is made,
\* no hover or click listener is registered and no exception is raised,
\* whatever the outcome of the WebGL setup.
C7_NoGsapNoWiring ==
    ~gsapDefined =>
        /\ gsapCalls = 0
        /\ btnListeners = 0
        /\ cardListeners = 0
        /\ anchorListeners = 0
        /\ ~exception

C7_Witness ==
    /\ ~gsapDefined
    /\ domLoaded
    /\ "console.warn" \in OpNames(ops)
    /\ caller = "DOMContentLoaded"
    /\ gl = "null"

DrawDone == caller = "render" /\ "drawArrays" \in OpNames(ops)

\* C8: once setup has succeeded the render loop never stops: a frame
\* callback is pending in every Running state, and, the host running every
\* scheduled callback, whatever else is handled a render tick issuing a
\* draw call follows.
C8_RenderForever ==
    /\ [](renderer = "Running" => framePending > 0)
    /\ (renderer = "Running" /\ ~DrawDone) ~> DrawDone

C8_Witness ==
    /\ pc = "idle"
    /\ DrawDone
    /\ resizeQueued
    /\ u_time = <<1, 0>>
    /\ framePending = 1

\* C9: the renderer never leaves Running (nor Fallback), in every Running
\* state exactly one frame callback is pending, and a resize event neither
\* draws nor schedules a tick.
C9_SingleLoop ==
    [][/\ renderer = "Running" => renderer' = "Running"
       /\ renderer = "Fallback" => renderer' = "Fallback"
       /\ renderer' = "Running" => framePending' = 1
       /\ ResizeEvent => /\ framePending' = framePending
                         /\ drawIssued' = drawIssued
                         /\ u_time' = u_time
      ]_vars

C9_Witness ==
    /\ pc = "idle"
    /\ renderer = "Running"
    /\ caller = "resize"
    /\ framePending = 1
    /\ domLoaded
    /\ now = 2000

\* C10: at every draw call the GL viewport and the resolution uniform equal
\* the canvas's current pixel dimensions, and the initial resize precedes
\* the first draw, so the resolution uniform is never unset at a draw.
C10_DrawSeesCanvasSize ==
    drawIssued =>
        /\ viewport = <<0, 0, canvasWidth, canvasHeight>>
        /\ u_resolution = <<canvasWidth, canvasHeight>>
        /\ \E i, j \in 1..Len(setupLog) :
              i < j /\ setupLog[i] = "resize" /\ setupLog[j] = "render"

C10_Witness ==
    /\ pc = "idle"
    /\ DrawDone
    /\ canvasWidth = 1
    /\ innerWidth = 800
    /\ resizeQueued
    /\ u_time = <<2, 0>>

====
